---- MODULE Spec2Model ----
(***************************************************************************)
(* Model of src/AA/bundler.py: the FastAPI bundler that accepts            *)
(* UserOperations, stores them in the sqlite table `operations`, relays    *)
(* them through web3 from a coroutine started with asyncio.create_task,    *)
(* and serves status and history reads.                                    *)
(*                                                                         *)
(* The process runs one asyncio event loop (uvicorn.run, one process).     *)
(* submit_op, get_status, get_history and process_op are coroutines that   *)
(* contain no await: each runs from its first line to its return without   *)
(* yielding the loop.  The web3 calls of process_op are synchronous HTTP   *)
(* calls, so the model splits process_op at them (the chain and the        *)
(* clients move meanwhile) while the loop stays occupied by the frame in   *)
(* `running`.                                                              *)
(***************************************************************************)
EXTENDS Integers, Sequences, FiniteSets, TLC

\* ---------------------------------------------------------------- bounds
MaxOps == 2          \* intake requests sent over a run

Clients == {"c1", "c2"}
\* the values uuid4() draws: opaque, so the model numbers them in the order
\* they first come out
OpHashes == 1..MaxOps

\* ------------------------------------------------- request documents (JSON)
IntFields == {"nonce", "callGasLimit", "verificationGasLimit",
              "preVerificationGas", "maxFeePerGas", "maxPriorityFeePerGas"}
StrFields == {"sender", "initCode", "callData", "signature", "paymasterAndData"}
GasFeeFields == IntFields \ {"nonce"}
Fields == IntFields \cup StrFields

\* A JSON value of a request body: an integer, a string that is not a
\* number, or an absent key.
JInt(n) == [t |-> "int", n |-> n, s |-> ""]
JStr(s) == [t |-> "str", n |-> 0, s |-> s]
JNone == [t |-> "none", n |-> 0, s |-> ""]

OpA == [f \in Fields |->
          CASE f = "sender" -> JStr("0xAA")
            [] f = "nonce" -> JInt(0)
            [] f \in GasFeeFields -> JInt(1)
            [] OTHER -> JStr("0x")]
OpNeg(f) == [OpA EXCEPT ![f] = JInt(-1)]
OpMissing == [OpA EXCEPT !["signature"] = JNone]

Documents == {OpA, OpNeg("maxFeePerGas"), OpMissing}

\* pydantic validation of the body against UserOperation: every field is
\* required; an int field takes an integer, a str field takes a string.  No
\* field carries a range constraint.
UserOperationValid(doc) ==
    /\ \A f \in IntFields : doc[f].t = "int"
    /\ \A f \in StrFields : doc[f].t = "str"

\* The validated model: int fields as integers, str fields as strings.  user_op.dict() is this mapping.
UserOperation(doc) ==
    [f \in Fields |-> IF f \in IntFields THEN doc[f].n ELSE doc[f].s]

NoOp == [f \in Fields |-> IF f \in IntFields THEN 0 ELSE ""]
NoDoc == [f \in Fields |-> JNone]

\* ------------------------------------------------------------------ json
\* a TEXT column of sqlite: NULL, or a text
Null == [null |-> TRUE, text |-> <<>>]
Text(x) == [null |-> FALSE, text |-> x]
\* a receipt field of OpStatus: None, or a dict
None == [none |-> TRUE, status |-> 0]

\* json.dumps(dict(receipt)): raises TypeError when the receipt holds
\* bytes-typed values, else the text of its fields.
JsonDumpsRaises(receipt) == receipt.bytesFields
JsonDumps(receipt) == <<"status", receipt.status>>
\* json.loads(text) of a stored receipt
JsonLoads(text) == [none |-> FALSE, status |-> text[2]]

\* ----------------------------------------------------------------- state
VARIABLES
    operations,   \* rows of table `operations` of ops.db, in rowid order
    now,          \* int(time.time()) as last read
    ready,        \* the event loop's FIFO of runnable tasks
    running,      \* the process_op frame occupying the loop, or Idle
    txCount,      \* chain: included transactions of the relaying account
    mempool,      \* chain: broadcast transactions not yet included
    included,     \* chain: the included transactions
    response,     \* the response the step sends, if it sends one
    fresh,        \* per client: the identifier submit_op just returned to it
    awaiting,     \* per client: a request is outstanding
    sentOps,      \* intake requests sent so far
    returned,     \* the identifiers submit_op has returned, one per return
    outcome       \* how the process_op that ends in the step went

vars == <<operations, now, ready, running, txCount, mempool, included,
          response, fresh, awaiting, sentOps, returned, outcome>>

entry_point_address == "0x5FF137D4b0FDCD49DcA30c7CF57E578a026d2789"
GasLimit == 1000000

\* encode_user_op: the placeholder encoding, the same for every operation
encode_user_op(op) == "0x"

NoTx == [to |-> "", data |-> "", gas |-> 0, maxFeePerGas |-> 0,
         maxPriorityFeePerGas |-> 0, nonce |-> 0]
Idle == [op_hash |-> 0, user_op |-> NoOp, pc |-> "idle", tx |-> NoTx]

\* the coroutine frame of process_op(op_hash, user_op) with tx signed
Frame(h, op, tx) == [op_hash |-> h, user_op |-> op, pc |-> "send_raw_transaction",
                     tx |-> tx]

\* tasks of the event loop: a request to one of the three routes, or the
\* task made by asyncio.create_task(process_op(...))
Task(k, c, doc, op, h, imm) ==
    [kind |-> k, client |-> c, doc |-> doc, user_op |-> op, op_hash |-> h,
     imm |-> imm]

\* responses
NoResponse == [kind |-> "none", client |-> "", op_hash |-> 0, status |-> "", receipt |-> None,
               entries |-> <<>>, imm |-> FALSE]
Response(k) == [NoResponse EXCEPT !.kind = k]

\* OpStatus(op_hash, status, receipt) as built by get_status and get_history
\* from a row: the receipt column is parsed when it is non-empty, else None
OpStatus(row) ==
    [op_hash |-> row.op_hash, status |-> row.status,
     receipt |-> IF row.receipt = Null THEN None ELSE JsonLoads(row.receipt.text)]

\* ------------------------------------------------------------ the table
RowIds(table) == {table[i].op_hash : i \in DOMAIN table}
HasRow(h) == h \in RowIds(operations)
RowOf(table, h) == table[CHOOSE i \in DOMAIN table : table[i].op_hash = h]
Row(h) == RowOf(operations, h)

\* INSERT INTO operations (op_hash, user_op, status, created_at): the receipt
\* column is left NULL
Insert(table, h, op, t) ==
    Append(table, [op_hash |-> h, user_op |-> op, status |-> "pending",
                   receipt |-> Null, created_at |-> t])

\* (variant: the update of the try branch sets the status alone)
UpdateCompletedNoReceipt(table, h, text) ==
    [i \in DOMAIN table |->
        IF table[i].op_hash = h
        THEN [table[i] EXCEPT !.status = "completed"]
        ELSE table[i]]

\* (variant: the update also stamps the row with a new time)
UpdateCompletedTouch(table, h, text) ==
    [i \in DOMAIN table |->
        IF table[i].op_hash = h
        THEN [table[i] EXCEPT !.status = "completed", !.receipt = Text(text),
                              !.created_at = @ + 1]
        ELSE table[i]]

\* UPDATE operations SET status = ?, receipt = ? WHERE op_hash = ?
UpdateCompleted(table, h, text) ==
    [i \in DOMAIN table |->
        IF table[i].op_hash = h
        THEN [table[i] EXCEPT !.status = "completed", !.receipt = Text(text)]
        ELSE table[i]]

\* (variant: the update of the except branch has no WHERE clause)
UpdateFailedEveryRow(table, h) ==
    [i \in DOMAIN table |-> [table[i] EXCEPT !.status = "failed"]]

\* (variant: the update of the except branch is never committed)
UpdateFailedNoCommit(table, h) == table

\* (variant: the update of the except branch stores the error as the receipt)
UpdateFailedWithReceipt(table, h) ==
    [i \in DOMAIN table |->
        IF table[i].op_hash = h
        THEN [table[i] EXCEPT !.status = "failed", !.receipt = Text(<<"error">>)]
        ELSE table[i]]

\* (variant: the except branch removes the row instead of marking it)
UpdateFailedDeletes(table, h) ==
    SelectSeq(table, LAMBDA row : row.op_hash # h)

\* UPDATE operations SET status = ? WHERE op_hash = ?
UpdateFailed(table, h) ==
    [i \in DOMAIN table |->
        IF table[i].op_hash = h
        THEN [table[i] EXCEPT !.status = "failed"]
        ELSE table[i]]

\* ------------------------------------------------------------------ init
NoOutcome == [op_hash |-> 0, raised |-> "none", included |-> FALSE,
              reverted |-> FALSE]

Init ==
    /\ operations = <<>>
    /\ now = 0
    /\ ready = <<>>
    /\ running = Idle
    /\ txCount = 0
    /\ mempool = {}
    /\ included = {}
    /\ response = NoResponse
    /\ fresh = [c \in Clients |-> 0]
    /\ awaiting = [c \in Clients |-> FALSE]
    /\ sentOps = 0
    /\ returned = <<>>
    /\ outcome = NoOutcome

\* --------------------------------------------------------------- clients
\* A client sends one request at a time; whatever it sends, the identifier
\* it was just given stops being fresh.
Send(c, task) ==
    /\ ~awaiting[c]
    /\ ready' = Append(ready, task)
    /\ awaiting' = [awaiting EXCEPT ![c] = TRUE]
    /\ fresh' = [fresh EXCEPT ![c] = 0]
    /\ response' = NoResponse
    /\ outcome' = NoOutcome
    /\ UNCHANGED <<operations, now, running, txCount, mempool, included,
                   returned>>

\* A client posts a document to /api/submit_op.
SendSubmit(c, doc) ==
    /\ sentOps < MaxOps
    /\ sentOps' = sentOps + 1
    /\ Send(c, Task("submit_op", c, doc, NoOp, 0, FALSE))

\* A client gets /api/status/{h}.  The request is marked when it is the
\* client's first action after submit_op returned h to it.
SendStatus(c, h) ==
    /\ Send(c, Task("get_status", c, NoDoc, NoOp, h, fresh[c] = h))
    /\ UNCHANGED sentOps

\* A client gets /api/history.
SendHistory(c) ==
    /\ Send(c, Task("get_history", c, NoDoc, NoOp, 0, FALSE))
    /\ UNCHANGED sentOps

\* ------------------------------------------------------------ event loop
\* (variant: the gateway calls are awaited, so the loop runs other tasks
\* while a worker is inside one)
LoopFreeAlways == TRUE

\* The loop runs the task at the head of `ready` when no coroutine occupies it.
LoopFree == running = Idle
Runnable(k) == LoopFree /\ ready # <<>> /\ Head(ready).kind = k

\* the response goes out to the client; f is the identifier it carries
Reply(c, r, f) ==
    /\ response' = [r EXCEPT !.client = c]
    /\ awaiting' = [awaiting EXCEPT ![c] = FALSE]
    /\ fresh' = [fresh EXCEPT ![c] = f]

\* uuid4(): a value drawn before, or the next new one
Uuid4 == {h \in OpHashes : h <= Len(operations) + 1}
\* int(time.time()): the clock does not run backwards; the model lets it
\* advance by at most one between two intakes
Clock == {now, now + 1}

\* (variant: the column is declared without PRIMARY KEY)
NoPrimaryKey(h) == FALSE

\* (variant: the table also has a unique index on the operation's sender
\* and nonce)
UniqueSenderNonce(h) ==
    \/ HasRow(h)
    \/ \E i \in DOMAIN operations :
         /\ operations[i].user_op.sender = UserOperation(Head(ready).doc).sender
         /\ operations[i].user_op.nonce = UserOperation(Head(ready).doc).nonce

\* op_hash TEXT PRIMARY KEY: an INSERT of a key the table holds is refused
PrimaryKeyTaken(h) == HasRow(h)

\* POST /api/submit_op with a body pydantic rejects: 422, the handler is not
\* entered.
submit_op_invalid ==
    /\ Runnable("submit_op")
    /\ ~UserOperationValid(Head(ready).doc)
    /\ Reply(Head(ready).client, Response("422"), 0)
    /\ ready' = Tail(ready)
    /\ outcome' = NoOutcome
    /\ UNCHANGED <<operations, now, running, txCount, mempool, included,
                   sentOps, returned>>

\* submit_op with the identifier uuid4() drew already a primary key: the
\* INSERT raises IntegrityError, the handler ends with a 500.
submit_op_duplicate(h) ==
    /\ Runnable("submit_op")
    /\ UserOperationValid(Head(ready).doc)
    /\ h \in Uuid4
    /\ PrimaryKeyTaken(h)
    /\ Reply(Head(ready).client, Response("500"), 0)
    /\ ready' = Tail(ready)
    /\ outcome' = NoOutcome
    /\ UNCHANGED <<operations, now, running, txCount, mempool, included,
                   sentOps, returned>>

\* (variant: the handler awaits process_op, so its return is still
\* outstanding while the worker runs)
submit_op_awaits(h, t) ==
    /\ Runnable("submit_op")
    /\ UserOperationValid(Head(ready).doc)
    /\ h \in Uuid4
    /\ t \in Clock
    /\ ~PrimaryKeyTaken(h)
    /\ LET user_op == UserOperation(Head(ready).doc) IN
         /\ operations' = Insert(operations, h, user_op, t)
         /\ ready' = Append(Tail(ready),
                            Task("process_op", Head(ready).client, NoDoc, user_op, h, FALSE))
    /\ response' = NoResponse
    /\ now' = t
    /\ outcome' = NoOutcome
    /\ UNCHANGED <<running, txCount, mempool, included, sentOps, returned,
                   awaiting, fresh>>

\* submit_op: insert the pending row stamped with the clock's value t (the
\* clock does not run backwards), commit, create the process_op task, return
\* the identifier.
submit_op(h, t) ==
    /\ Runnable("submit_op")
    /\ UserOperationValid(Head(ready).doc)
    /\ h \in Uuid4
    /\ t \in Clock
    /\ ~PrimaryKeyTaken(h)
    /\ LET user_op == UserOperation(Head(ready).doc) IN
         /\ operations' = Insert(operations, h, user_op, t)
         /\ ready' = Append(Tail(ready),
                            Task("process_op", Head(ready).client, NoDoc, user_op, h, FALSE))
    /\ Reply(Head(ready).client, [Response("op_hash") EXCEPT !.op_hash = h], h)
    /\ returned' = Append(returned, h)
    /\ now' = t
    /\ outcome' = NoOutcome
    /\ UNCHANGED <<running, txCount, mempool, included, sentOps>>

\* (variant: an unknown identifier gets an empty success response)
StatusReplyNo404(t) ==
    IF ~HasRow(t.op_hash)
    THEN [Response("status") EXCEPT !.op_hash = t.op_hash, !.imm = t.imm]
    ELSE [Response("status") EXCEPT
            !.op_hash = t.op_hash,
            !.status = OpStatus(Row(t.op_hash)).status,
            !.receipt = OpStatus(Row(t.op_hash)).receipt,
            !.imm = t.imm]

\* (variant: the status is answered from what intake wrote, not from the row)
StatusReplyCached(t) ==
    IF ~HasRow(t.op_hash)
    THEN [Response("404") EXCEPT !.op_hash = t.op_hash, !.imm = t.imm]
    ELSE [Response("status") EXCEPT
            !.op_hash = t.op_hash, !.status = "pending", !.imm = t.imm]

\* what get_status answers to request t: 404 when the SELECT finds no row,
\* else the row's status and parsed receipt
StatusReply(t) ==
    IF ~HasRow(t.op_hash)
    THEN [Response("404") EXCEPT !.op_hash = t.op_hash, !.imm = t.imm]
    ELSE [Response("status") EXCEPT
            !.op_hash = t.op_hash,
            !.status = OpStatus(Row(t.op_hash)).status,
            !.receipt = OpStatus(Row(t.op_hash)).receipt,
            !.imm = t.imm]

\* get_status: one SELECT, then the answer; nothing is written
get_status ==
    /\ Runnable("get_status")
    /\ Reply(Head(ready).client, StatusReply(Head(ready)), 0)
    /\ ready' = Tail(ready)
    /\ outcome' = NoOutcome
    /\ UNCHANGED <<operations, now, running, txCount, mempool, included,
                   sentOps, returned>>

\* get_history: one OpStatus per row, in the order of the SELECT
get_history ==
    /\ Runnable("get_history")
    /\ Reply(Head(ready).client,
             [Response("history") EXCEPT
                !.entries = [i \in DOMAIN operations |-> OpStatus(operations[i])]],
             0)
    /\ ready' = Tail(ready)
    /\ outcome' = NoOutcome
    /\ UNCHANGED <<operations, now, running, txCount, mempool, included,
                   sentOps, returned>>

\* ------------------------------------------------------------ process_op
\* the except branch: mark the row failed; the coroutine ends
Except(h, step, inc, rev) ==
    /\ operations' = UpdateFailed(operations, h)
    /\ outcome' = [op_hash |-> h, raised |-> step, included |-> inc, reverted |-> rev]
    /\ running' = Idle

BuildTx(op, nonce) ==
    [to |-> entry_point_address, data |-> encode_user_op(op), gas |-> GasLimit,
     maxFeePerGas |-> op["maxFeePerGas"],
     maxPriorityFeePerGas |-> op["maxPriorityFeePerGas"],
     nonce |-> nonce]

\* sign_transaction cannot encode a negative fee
SignRaises(tx) == tx.maxFeePerGas < 0 \/ tx.maxPriorityFeePerGas < 0

\* The task made by create_task gets the loop and runs to its first call of
\* the node, w3.eth.get_transaction_count, which raises.
get_transaction_count_raises ==
    /\ Runnable("process_op")
    /\ Except(Head(ready).op_hash, "get_transaction_count", FALSE, FALSE)
    /\ ready' = Tail(ready)
    /\ response' = NoResponse
    /\ UNCHANGED <<now, txCount, mempool, included, fresh, awaiting, sentOps,
                   returned>>

\* The task gets the loop; w3.eth.get_transaction_count returns the account's
\* count; the transaction is built and signed.
get_transaction_count ==
    /\ Runnable("process_op")
    /\ LET h == Head(ready).op_hash
           tx == BuildTx(Head(ready).user_op, txCount) IN
         IF SignRaises(tx)
         THEN Except(h, "sign_transaction", FALSE, FALSE)
         ELSE /\ running' = Frame(h, Head(ready).user_op, tx)
              /\ outcome' = NoOutcome
              /\ UNCHANGED operations
    /\ ready' = Tail(ready)
    /\ response' = NoResponse
    /\ UNCHANGED <<now, txCount, mempool, included, fresh, awaiting, sentOps,
                   returned>>

\* w3.eth.send_raw_transaction raises: the node is unreachable or rejects
\* the transaction
send_raw_transaction_raises ==
    /\ running.pc = "send_raw_transaction"
    /\ Except(running.op_hash, "send_raw_transaction", FALSE, FALSE)
    /\ response' = NoResponse
    /\ UNCHANGED <<now, ready, txCount, mempool, included, fresh, awaiting,
                   sentOps, returned>>

\* the node takes a transaction whose nonce is not used up and that it does
\* not already hold; it replaces a held one of the same nonce
NodeAccepts(tx) == tx.nonce >= txCount /\ tx \notin mempool

send_raw_transaction ==
    /\ running.pc = "send_raw_transaction"
    /\ NodeAccepts(running.tx)
    /\ mempool' = {t \in mempool : t.nonce # running.tx.nonce} \cup {running.tx}
    /\ running' = [running EXCEPT !.pc = "wait_for_transaction_receipt"]
    /\ response' = NoResponse
    /\ outcome' = NoOutcome
    /\ UNCHANGED <<operations, now, ready, txCount, included, fresh, awaiting,
                   sentOps, returned>>

\* w3.eth.wait_for_transaction_receipt gives up: TimeExhausted
wait_for_transaction_receipt_raises ==
    /\ running.pc = "wait_for_transaction_receipt"
    /\ running.tx \notin included
    /\ Except(running.op_hash, "wait_for_transaction_receipt", FALSE, FALSE)
    /\ response' = NoResponse
    /\ UNCHANGED <<now, ready, txCount, mempool, included, fresh, awaiting,
                   sentOps, returned>>

\* the row update of the try branch, with the receipt the wait returned
Completed(h, receipt) ==
    /\ operations' = UpdateCompleted(operations, h, JsonDumps(receipt))
    /\ outcome' = [op_hash |-> h, raised |-> "none", included |-> TRUE,
                   reverted |-> (receipt.status = 0)]
    /\ running' = Idle

\* w3.eth.wait_for_transaction_receipt returns the receipt of the included
\* transaction: its execution succeeded (status 1) or reverted (status 0),
\* and it holds bytes-typed values or not.  The row is updated.
wait_for_transaction_receipt(status, bytesFields) ==
    /\ running.pc = "wait_for_transaction_receipt"
    /\ running.tx \in included
    /\ LET receipt == [status |-> status, bytesFields |-> bytesFields] IN
         IF JsonDumpsRaises(receipt)
         THEN Except(running.op_hash, "json.dumps", TRUE, receipt.status = 0)
         ELSE Completed(running.op_hash, receipt)
    /\ response' = NoResponse
    /\ UNCHANGED <<now, ready, txCount, mempool, included, fresh, awaiting,
                   sentOps, returned>>

\* ----------------------------------------------------------- environment
\* The chain includes the relaying account's next transaction and drops the
\* held ones whose nonce it used up.
Mine(tx) ==
    /\ tx \in mempool
    /\ tx.nonce = txCount
    /\ included' = included \cup {tx}
    /\ txCount' = txCount + 1
    /\ mempool' = {t \in mempool : t.nonce > txCount}
    /\ response' = NoResponse
    /\ outcome' = NoOutcome
    /\ UNCHANGED <<operations, now, ready, running, fresh, awaiting, sentOps,
                   returned>>

\* ------------------------------------------------------------------ spec
Next ==
    \/ \E c \in Clients, doc \in Documents : SendSubmit(c, doc)
    \/ \E c \in Clients, h \in OpHashes : SendStatus(c, h)
    \/ \E c \in Clients : SendHistory(c)
    \/ submit_op_invalid
    \/ \E h \in OpHashes : submit_op_duplicate(h)
    \/ \E h \in OpHashes, t \in 0..MaxOps : submit_op(h, t)
    \/ get_status
    \/ get_history
    \/ get_transaction_count_raises
    \/ get_transaction_count
    \/ send_raw_transaction_raises
    \/ send_raw_transaction
    \/ wait_for_transaction_receipt_raises
    \/ \E st \in {0, 1}, b \in BOOLEAN : wait_for_transaction_receipt(st, b)
    \/ \E tx \in mempool : Mine(tx)

Spec == Init /\ [][Next]_vars

\* A request handler runs: the loop serves the request at the head of `ready`.
Handle ==
    \/ submit_op_invalid
    \/ \E h \in OpHashes : submit_op_duplicate(h)
    \/ \E h \in OpHashes, t \in 0..MaxOps : submit_op(h, t)
    \/ get_status
    \/ get_history

\* The loop runs every runnable task in turn, and every call of the node
\* returns or raises.
LiveSpec ==
    /\ Spec
    /\ WF_vars(Handle)
    /\ WF_vars(get_transaction_count_raises \/ get_transaction_count)
    /\ WF_vars(send_raw_transaction_raises \/ send_raw_transaction)
    /\ WF_vars(wait_for_transaction_receipt_raises
               \/ \E st \in {0, 1}, b \in BOOLEAN : wait_for_transaction_receipt(st, b))

\* ---------------------------------------------------------------- claims
Terminal == {"completed", "failed"}
RequestKinds == {"submit_op", "get_status", "get_history"}
GatewayCalls == {"get_transaction_count", "send_raw_transaction",
                 "wait_for_transaction_receipt"}

\* C1: a get_status(X) that a caller issues as its first action after
\* submit_op returned X to it answers with status pending.
C1_ImmediateStatusIsPending ==
    (/\ response.kind = "status"
     /\ response.imm
     /\ \A f \in GasFeeFields : Row(response.op_hash).user_op[f] >= 0)
    => response.status = "pending"

\* C2: while a process_op is blocked in a call of the node, the process can
\* still handle a request that has arrived: the handler of the request at the
\* head of the loop's queue is able to run.
C2_ServesWhileWorkerBlocked ==
    (/\ running.pc \in {"send_raw_transaction", "wait_for_transaction_receipt"}
     /\ ready # <<>>
     /\ Head(ready).kind \in RequestKinds)
    => ENABLED Handle

\* C3: in every state every row has a receipt exactly when its status is
\* completed.
C3_ReceiptIffCompleted ==
    \A i \in DOMAIN operations :
        (operations[i].receipt # Null) <=> (operations[i].status = "completed")

C3_Witness ==
    /\ \E i \in DOMAIN operations :
          operations[i].status = "completed" /\ operations[i].receipt # Null
    /\ \E i \in DOMAIN operations :
          operations[i].status = "failed" /\ operations[i].receipt = Null

\* C4: a row whose status is completed or failed is the same row, status and
\* receipt included, after every step.
C4_TerminalNeverChanges ==
    [][\A i \in DOMAIN operations :
          operations[i].status \in Terminal =>
              \E j \in DOMAIN operations' :
                  /\ operations'[j].op_hash = operations[i].op_hash
                  /\ operations'[j].status = operations[i].status
                  /\ operations'[j].receipt = operations[i].receipt]_vars

\* a later process_op has ended after a row became terminal
C4_Witness ==
    /\ Len(operations) >= 2
    /\ operations[1].status = "completed"
    /\ outcome.op_hash = operations[2].op_hash
    /\ outcome.raised \in GatewayCalls

\* C5: a process_op whose transaction was built, signed, broadcast and
\* confirmed included leaves its row completed with the receipt stored.
C5_IncludedMeansCompleted ==
    (outcome.op_hash # 0 /\ outcome.included) =>
        /\ Row(outcome.op_hash).status = "completed"
        /\ Row(outcome.op_hash).receipt # Null

C7_GatewayFailureOnlyInStatus ==
    (outcome.op_hash # 0 /\ outcome.raised \in GatewayCalls) =>
        /\ Row(outcome.op_hash).status = "failed"
        /\ Row(outcome.op_hash).receipt = Null
        /\ response = NoResponse
        /\ \E i \in DOMAIN returned : returned[i] = outcome.op_hash

C7_Witness ==
    /\ outcome.raised = "send_raw_transaction"
    /\ Row(outcome.op_hash).status = "failed"
    /\ \E i \in DOMAIN returned : returned[i] = outcome.op_hash

\* C8: no intake of an operation with a negative gas-limit or fee-rate field
\* creates a row or schedules a process_op.
C8_NegativeGasRejected ==
    /\ \A i \in DOMAIN operations :
          \A f \in GasFeeFields : operations[i].user_op[f] >= 0
    /\ \A i \in DOMAIN ready :
          ready[i].kind = "process_op" =>
              \A f \in GasFeeFields : ready[i].user_op[f] >= 0

\* C9: get_history answers with one entry per return of submit_op: as many
\* entries as returns, the identifiers of the entries are the returned ones,
\* and the returned identifiers are pairwise distinct.
C9_HistoryOnePerIntake ==
    response.kind = "history" =>
        /\ Len(response.entries) = Len(returned)
        /\ {response.entries[i].op_hash : i \in DOMAIN response.entries}
             = {returned[i] : i \in DOMAIN returned}
        /\ \A i, j \in DOMAIN returned : returned[i] = returned[j] => i = j

\* both intakes were in the loop's queue together before the history read
C9_Witness ==
    /\ response.kind = "history"
    /\ Len(response.entries) = MaxOps

\* C10: every accepted operation's row reaches completed or failed.
C10_EveryRowTerminates ==
    \A h \in OpHashes :
        HasRow(h) ~> (HasRow(h) /\ Row(h).status \in Terminal)

C10_Witness ==
    /\ Len(operations) = MaxOps
    /\ \A i \in DOMAIN operations : operations[i].status \in Terminal

Returned == {returned[i] : i \in DOMAIN returned}

\* C11: a get_status for an identifier no intake has issued answers 404,
\* never a success response, and leaves the table as it was.
C11_UnissuedIsNotFound ==
    [][(response'.kind \in {"status", "404"} /\ response'.op_hash \notin Returned)
         => (response'.kind = "404" /\ operations' = operations)]_vars

\* an unissued identifier was asked for while the table held a row
C11_Witness ==
    /\ response.kind = "404"
    /\ response.op_hash \notin Returned
    /\ Len(operations) >= 1

\* the process_op tasks for h that wait in the loop's queue
Queued(h) == {i \in DOMAIN ready : ready[i].kind = "process_op" /\ ready[i].op_hash = h}

\* C12: submit_op returns the identifier while process_op for it has not yet
\* made a gateway call and the row is not terminal; every worker that runs or
\* has ended belongs to an identifier already returned.
C12_ReturnsBeforeWorkerStarts ==
    /\ response.kind = "op_hash" =>
         /\ Queued(response.op_hash) # {}
         /\ running.op_hash # response.op_hash
         /\ Row(response.op_hash).status = "pending"
    /\ running # Idle => running.op_hash \in Returned
    /\ outcome.op_hash # 0 => outcome.op_hash \in Returned

\* an identifier has been returned and its worker is now inside a gateway call
C12_Witness ==
    /\ running.pc = "wait_for_transaction_receipt"
    /\ running.op_hash \in Returned
    /\ Row(running.op_hash).status = "pending"

\* the number of process_op tasks for h that are queued or running
Workers(h) == Cardinality(Queued(h)) + (IF running.op_hash = h THEN 1 ELSE 0)

\* C13: the table holds one row per identifier; an insert under an identifier
\* already present fails (500) and adds no row, and no second worker exists:
\* a pending row has exactly its one worker, a terminal row has none.
C13_OneRecordPerIdentifier ==
    /\ \A i, j \in DOMAIN operations :
         operations[i].op_hash = operations[j].op_hash => i = j
    /\ \A i \in DOMAIN operations :
         Workers(operations[i].op_hash) =
           IF operations[i].status = "pending" THEN 1 ELSE 0
    /\ response.kind = "500" => Len(operations) = Len(returned)

\* an insert has just failed on an identifier whose row is already terminal
C13_Witness ==
    /\ response.kind = "500"
    /\ \E i \in DOMAIN operations : operations[i].status \in Terminal

\* C14: every step keeps all rows in place (none is deleted); a new row
\* appears pending together with exactly one queued worker; no worker is
\* queued without its row; a row's status is written only once after the
\* insert, by its own worker, which ends with that write.
C14_WritesOrdered ==
    [][/\ \A i \in DOMAIN operations :
            /\ i \in DOMAIN operations'
            /\ operations'[i].op_hash = operations[i].op_hash
            /\ operations'[i].status # operations[i].status =>
                 /\ operations[i].status = "pending"
                 /\ operations'[i].status \in Terminal
                 /\ Workers(operations[i].op_hash) = 1
                 /\ Workers(operations[i].op_hash)' = 0
       /\ \A h \in RowIds(operations') \ RowIds(operations) :
            /\ RowOf(operations', h).status = "pending"
            /\ Workers(h) = 0
            /\ Workers(h)' = 1
       /\ \A k \in DOMAIN ready' :
            ready'[k].kind = "process_op" =>
              \E i \in DOMAIN operations' :
                operations'[i].op_hash = ready'[k].op_hash]_vars

\* both rows were inserted and both workers have committed their one update
C14_Witness ==
    /\ Len(operations) = MaxOps
    /\ \A i \in DOMAIN operations :
         operations[i].status \in Terminal /\ Workers(operations[i].op_hash) = 0
    /\ \E i \in DOMAIN operations : operations[i].status = "completed"
    /\ \E i \in DOMAIN operations : operations[i].status = "failed"

\* C15: an intake of a valid operation can always be accepted, whatever
\* sender and nonce the rows already hold; two rows with the same sender and
\* nonce carry distinct identifiers, and each has its own worker while it is
\* pending and none once it is terminal.
C15_SameSenderNonceBothAccepted ==
    /\ (Runnable("submit_op") /\ UserOperationValid(Head(ready).doc)) =>
         ENABLED (\E h \in OpHashes, t \in 0..MaxOps : submit_op(h, t))
    /\ \A i, j \in DOMAIN operations :
         (/\ i # j
          /\ operations[i].user_op.sender = operations[j].user_op.sender
          /\ operations[i].user_op.nonce = operations[j].user_op.nonce) =>
           /\ operations[i].op_hash # operations[j].op_hash
           /\ Workers(operations[i].op_hash) =
                IF operations[i].status = "pending" THEN 1 ELSE 0

\* two rows hold the very same operation; one worker completed, the other
\* failed
C15_Witness ==
    \E i, j \in DOMAIN operations :
      /\ i # j
      /\ operations[i].user_op = operations[j].user_op
      /\ operations[i].status = "completed"
      /\ operations[j].status = "failed"

\* the answer e carries what the row holds: its status, no receipt when the
\* column is NULL, else the receipt the column's text records
Shows(e, row) ==
    /\ e.op_hash = row.op_hash
    /\ e.status = row.status
    /\ e.receipt.none <=> row.receipt.null
    /\ ~row.receipt.null => e.receipt.status = row.receipt.text[2]

\* C16: a step of get_status or get_history leaves the table exactly as it
\* was, and its answer shows what the table holds at that moment: the row's
\* status and receipt, or one such entry per row.
C16_ReadsArePure ==
    [][response'.kind \in {"status", "404", "history"} =>
         /\ operations' = operations
         /\ response'.kind = "status" =>
              /\ HasRow(response'.op_hash)
              /\ Shows(response', Row(response'.op_hash))
         /\ response'.kind = "history" =>
              /\ Len(response'.entries) = Len(operations)
              /\ \A i \in DOMAIN operations :
                   Shows(response'.entries[i], operations[i])]_vars

\* a status read after the worker's update answers completed with the receipt
C16_Witness ==
    /\ response.kind = "status"
    /\ response.status = "completed"
    /\ ~response.receipt.none
    /\ Row(response.op_hash).status = "completed"

\* C17: no step changes a row's identifier, operation or created_at; a row
\* changes at all only in the step in which the worker of that very
\* identifier ends, and its receipt changes only when it becomes completed.
C17_SnapshotFixedAtIntake ==
    [][\A i \in DOMAIN operations :
         /\ i \in DOMAIN operations'
         /\ operations'[i].op_hash = operations[i].op_hash
         /\ operations'[i].user_op = operations[i].user_op
         /\ operations'[i].created_at = operations[i].created_at
         /\ operations'[i] # operations[i] =>
              /\ Workers(operations[i].op_hash) = 1
              /\ outcome'.op_hash = operations[i].op_hash
         /\ operations'[i].receipt # operations[i].receipt =>
              operations'[i].status = "completed"]_vars

\* a worker has just completed its row while another row is still pending
C17_Witness ==
    \E i, j \in DOMAIN operations :
      /\ i # j
      /\ outcome.op_hash = operations[i].op_hash
      /\ operations[i].status = "completed"
      /\ operations[j].status = "pending"

\* the identifiers whose worker has started and has not yet committed
InFlight ==
    {h \in RowIds(operations) : Row(h).status = "pending" /\ Queued(h) = {}}

\* a worker has fetched the relayer's sequence number and not yet broadcast
HasReadCount == running.pc = "send_raw_transaction"

\* C18 as stated: at most one worker is between its fetch of the sequence
\* number and its commit, and when a worker has fetched the number no
\* transaction of another worker is still waiting for inclusion.
C18_NoReadWhileUnincluded ==
    /\ Cardinality(InFlight) <= 1
    /\ HasReadCount => mempool = {}

\* C18 amended: at most one worker is between its fetch of the sequence
\* number and its commit; a worker fetches the number while a transaction of
\* another worker still waits for inclusion only after that other worker has
\* ended, with its row failed.
C18_WorkersExclusive ==
    /\ Cardinality(InFlight) <= 1
    /\ (HasReadCount /\ mempool # {}) =>
         /\ InFlight = {running.op_hash}
         /\ \E i \in DOMAIN operations :
              /\ operations[i].op_hash # running.op_hash
              /\ operations[i].status = "failed"

\* a worker holds a sequence number fetched while the transaction an earlier,
\* failed worker broadcast is still not included
C18_Witness ==
    /\ HasReadCount
    /\ \E tx \in mempool : tx.nonce = running.tx.nonce
    /\ \E i \in DOMAIN operations : operations[i].status = "failed"

====
